---- MODULE Spec2Model ----
(***************************************************************************)
(* Model of sync-mcp-cfg: the MCPServer record, the per-client handlers    *)
(* (claude_code, cursor, vscode, gemini_cli, opencode), and the sync       *)
(* command.                                                                *)
(*                                                                         *)
(* JSON values are modelled structurally:                                  *)
(*   - a JSON object with heterogeneous values is a TLA+ function whose    *)
(*     DOMAIN is the set of keys present (dict.get(k, d) is Get(o, k, d)); *)
(*   - a JSON object used as an ordered name -> entry mapping is a         *)
(*     sequence of [k, v] pairs with pairwise distinct k (Python dicts     *)
(*     keep insertion order);                                              *)
(*   - a JSON list is a sequence;                                          *)
(*   - a command / argument string is a sequence of chunks, each chunk     *)
(*     either a whitespace-free word or the single blank " ", so that      *)
(*     str.split() and ' '.join() are computed, not assumed;               *)
(*   - env mappings are sets of <<key, value>> pairs.                      *)
(***************************************************************************)
EXTENDS Integers, Sequences, FiniteSets, TLC

VARIABLES
    kind,      \* adapter spec: the handler class under test
    files,     \* config file content, per client kind
    backups,   \* backup files: path -> content
    clock,     \* datetime.now() truncated to seconds
    hist,      \* adapter spec: the last handler call (name, arguments, result, file before)
    registry,  \* ClientRegistry._clients: the discovered handles, in insertion order
    sync       \* sync spec: the local variables and position of sync_command

vars == <<kind, files, backups, clock, hist, registry, sync>>

-----------------------------------------------------------------------------
(* Generic helpers *)

None == "<None>"

Get(o, k, d) == IF k \in DOMAIN o THEN o[k] ELSE d

Put(o, k, v) == [x \in DOMAIN o \cup {k} |-> IF x = k THEN v ELSE o[x]]

Del(o, k) == [x \in DOMAIN o \ {k} |-> o[x]]

EmptyObj == [x \in {} |-> None]

\* Ordered mapping (Python dict name -> entry) as a sequence of [k, v] pairs.
DictKeys(d) == {d[i].k : i \in 1..Len(d)}

DictSet(d, key, val) ==
    IF key \in DictKeys(d)
    THEN [i \in 1..Len(d) |-> IF d[i].k = key THEN [k |-> key, v |-> val] ELSE d[i]]
    ELSE Append(d, [k |-> key, v |-> val])

\* d = {}; for p in pairs: d[p.k] = p.v
RECURSIVE DictFromPairs(_)
DictFromPairs(ps) ==
    IF Len(ps) = 0 THEN <<>>
    ELSE DictSet(DictFromPairs(SubSeq(ps, 1, Len(ps) - 1)), ps[Len(ps)].k, ps[Len(ps)].v)

-----------------------------------------------------------------------------
(* Strings with whitespace: sequences of chunks *)

Blank == " "

Truthy(s) == Len(s) > 0

\* ' '.join(parts)
RECURSIVE JoinBlank(_)
JoinBlank(parts) ==
    IF Len(parts) = 0 THEN <<>>
    ELSE IF Len(parts) = 1 THEN parts[1]
    ELSE parts[1] \o <<Blank>> \o JoinBlank(Tail(parts))

\* str.split(): maximal runs of non-blank chunks, empty runs dropped
RECURSIVE SplitFrom(_, _, _)
SplitFrom(s, i, cur) ==
    IF i > Len(s)
    THEN IF Len(cur) > 0 THEN <<cur>> ELSE <<>>
    ELSE IF s[i] = Blank
         THEN (IF Len(cur) > 0 THEN <<cur>> ELSE <<>>) \o SplitFrom(s, i + 1, <<>>)
         ELSE SplitFrom(s, i + 1, Append(cur, s[i]))

Split(s) == SplitFrom(s, 1, <<>>)

HasBlank(s) == \E i \in 1..Len(s) : s[i] = Blank

-----------------------------------------------------------------------------
(* core/models.py: MCPServer *)

STDIO == "stdio"
SSE == "sse"
HTTP == "http"

MCPServerType == {STDIO, SSE, HTTP}

\* the characters of the server names that occur in the model
NameChars(n) ==
    CASE n = "a" -> <<"a">>
      [] n = "b" -> <<"b">>
      [] n = "c" -> <<"c">>
      [] n = "a b" -> <<"a", " ", "b">>
      [] n = "a/b" -> <<"a", "/", "b">>
      [] n = "" -> <<>>
      [] n = " " -> <<" ">>
      [] OTHER -> <<"?">>

allowed_chars == {"a", "b", "c", "-", "_", "0", "A"}

StripIsEmpty(chars) == \A i \in 1..Len(chars) : chars[i] = " "

\* validate_name: TRUE when the validator accepts the name
validate_name(v) ==
    LET chars == NameChars(v) IN
    /\ ~(Len(chars) = 0 \/ StripIsEmpty(chars))
    /\ \A i \in 1..Len(chars) : chars[i] \in allowed_chars

\* validate_url: runs only when url is passed to the constructor
validate_url(v, server_type) ==
    ~(server_type \in {SSE, HTTP} /\ (v = None \/ v = ""))

\* MCPServer(...) : [ok |-> TRUE, v |-> record] or [ok |-> FALSE] (pydantic ValidationError).
\* urlGiven is FALSE when the call site omits the url keyword.
MCPServer(name, command, args, env, server_type, url, urlGiven, enabled, description) ==
    IF validate_name(name) /\ (urlGiven => validate_url(url, server_type))
    THEN [ok |-> TRUE,
          v |-> [name |-> name, command |-> command, args |-> args, env |-> env,
                 server_type |-> server_type, url |-> IF urlGiven THEN url ELSE None,
                 enabled |-> enabled, description |-> description]]
    ELSE [ok |-> FALSE]

\* ClientConfig.add_server / the list surgery shared by every handler's add_server
WithoutName(servers, name) == SelectSeq(servers, LAMBDA s : s.name # name)

NamesOf(servers) == {servers[i].name : i \in 1..Len(servers)}

CountName(servers, name) == Cardinality({i \in 1..Len(servers) : servers[i].name = name})

-----------------------------------------------------------------------------
(* Files *)

\* tag: "missing" (no file), "corrupt" (bytes that json.load rejects),
\*      "nonobj" (valid JSON whose top level is a list), "obj" (a JSON object, in top)
Missing == [tag |-> "missing", top |-> EmptyObj]
Corrupt == [tag |-> "corrupt", top |-> EmptyObj]
NonObj == [tag |-> "nonobj", top |-> EmptyObj]
Obj(top) == [tag |-> "obj", top |-> top]

config_exists(f) == f.tag # "missing"

\* json.load succeeds
\* variant: every existing file is taken for JSON
JsonLoadsAny(f) == config_exists(f)
JsonLoads(f) == f.tag \in {"obj", "nonobj"}

\* results of handler calls
Ok(v) == [err |-> "none", v |-> v]
Raise(e) == [err |-> e, v |-> None]

\* the chain "if server_type == 'stdio' ... else STDIO" of the loaders
MapType(server_type) ==
    IF server_type = "stdio" THEN STDIO
    ELSE IF server_type = "sse" THEN SSE
    ELSE IF server_type = "http" THEN HTTP
    ELSE STDIO

UrlTruthy(u) == u # None /\ u # ""

\* collects the constructed servers, or the first pydantic error
Collect(results) ==
    IF \E i \in 1..Len(results) : ~results[i].ok
    THEN Raise("ValidationError")
    ELSE Ok([i \in 1..Len(results) |-> results[i].v])

\* what open(path, 'w') + json.dump leave on disk
Written(config_data) == Obj(config_data)

-----------------------------------------------------------------------------
(* clients/claude_code.py *)

ClaudeCode_entry_to_server(name, server_config) ==
    MCPServer(name,
              Get(server_config, "command", <<>>),
              Get(server_config, "args", <<>>),
              Get(server_config, "env", {}),
              MapType(Get(server_config, "type", "stdio")),
              Get(server_config, "url", None), TRUE,
              TRUE, None)

ClaudeCode_load_servers(f) ==
    IF ~config_exists(f) THEN Ok(<<>>)
    ELSE IF f.tag = "corrupt" THEN Raise("ClientHandlerError")
    ELSE IF f.tag = "nonobj" THEN Raise("AttributeError")
    ELSE LET mcp_servers == Get(f.top, "mcpServers", <<>>) IN
         Collect([i \in 1..Len(mcp_servers) |->
                    ClaudeCode_entry_to_server(mcp_servers[i].k, mcp_servers[i].v)])

ClaudeCode_server_config(server) ==
    LET base == [command |-> server.command, args |-> server.args, env |-> server.env]
        typed == IF server.server_type # STDIO THEN Put(base, "type", server.server_type) ELSE base
    IN  IF UrlTruthy(server.url) THEN Put(typed, "url", server.url) ELSE typed

\* config_data read back by save_servers: {} when the file is missing or corrupt
\* variant: the existing content is never read back
ExistingOrFresh(f, fresh) == fresh
ExistingOr(f, fresh) == IF f.tag = "obj" THEN f.top ELSE fresh

ClaudeCode_save_servers(f, servers) ==
    IF f.tag = "nonobj" THEN [err |-> "TypeError", file |-> f]
    ELSE LET config_data == ExistingOr(f, EmptyObj)
             mcp_servers == DictFromPairs([i \in 1..Len(servers) |->
                               [k |-> servers[i].name, v |-> ClaudeCode_server_config(servers[i])]])
         IN [err |-> "none", file |-> Written(Put(config_data, "mcpServers", mcp_servers))]

-----------------------------------------------------------------------------
(* clients/cursor.py *)

ListTruthy(top, key) == key \in DOMAIN top /\ Len(top[key]) > 0

_detect_config_format(config_data) ==
    LET has_mcp_servers == ListTruthy(config_data, "mcpServers")
        has_servers == ListTruthy(config_data, "servers")
    IN  IF has_mcp_servers /\ has_servers THEN "both"
        ELSE IF has_mcp_servers THEN "claude"
        ELSE IF has_servers THEN "cursor"
        ELSE "none"

Cursor_claude_entry_to_server(name, server_config) ==
    MCPServer(name,
              Get(server_config, "command", <<>>),
              Get(server_config, "args", <<>>),
              Get(server_config, "env", {}),
              MapType(Get(server_config, "type", "stdio")),
              Get(server_config, "url", None), TRUE,
              ~Get(server_config, "disabled", FALSE), None)

_load_claude_format(config_data) ==
    LET mcp_servers == Get(config_data, "mcpServers", <<>>) IN
    [i \in 1..Len(mcp_servers) |->
        Cursor_claude_entry_to_server(mcp_servers[i].k, mcp_servers[i].v)]

\* the 'command' -> stdio chain of _load_cursor_format
MapCursorType(server_type) ==
    IF server_type = "command" THEN STDIO
    ELSE IF server_type = "sse" THEN SSE
    ELSE IF server_type = "http" THEN HTTP
    ELSE STDIO

Cursor_native_entry_to_server(server_config) ==
    LET command == Get(server_config, "command", <<>>)
        command_parts == Split(command)
        actual_command == IF Truthy(command)
                          THEN (IF Len(command_parts) > 0 THEN command_parts[1] ELSE command)
                          ELSE <<>>
        args == IF Truthy(command) /\ Len(command_parts) > 1 THEN Tail(command_parts) ELSE <<>>
    IN  MCPServer(Get(server_config, "name", ""),
                  actual_command, args, {},
                  MapCursorType(Get(server_config, "type", "command")),
                  None, FALSE,
                  Get(server_config, "enabled", TRUE), None)

_load_cursor_format(config_data) ==
    LET server_list == Get(config_data, "servers", <<>>) IN
    [i \in 1..Len(server_list) |-> Cursor_native_entry_to_server(server_list[i])]

\* on a top-level list both "'mcpServers' in config_data" and "'servers' in config_data"
\* are false: the format is 'none' and the empty list is returned
Cursor_load_servers(f) ==
    IF ~config_exists(f) THEN Ok(<<>>)
    ELSE IF f.tag = "corrupt" THEN Raise("ClientHandlerError")
    ELSE IF f.tag = "nonobj" THEN Ok(<<>>)
    ELSE LET config_format == _detect_config_format(f.top) IN
         IF config_format = "both"
         THEN Collect(_load_claude_format(f.top) \o _load_cursor_format(f.top))
         ELSE IF config_format = "claude" THEN Collect(_load_claude_format(f.top))
         ELSE IF config_format = "cursor" THEN Collect(_load_cursor_format(f.top))
         ELSE Ok(<<>>)

Cursor_claude_server_config(server) ==
    LET base == [command |-> server.command, args |-> server.args, env |-> server.env]
        typed == IF server.server_type # STDIO THEN Put(base, "type", server.server_type) ELSE base
        withUrl == IF UrlTruthy(server.url) THEN Put(typed, "url", server.url) ELSE typed
    IN  IF ~server.enabled THEN Put(withUrl, "disabled", TRUE) ELSE withUrl

_save_claude_format(config_data, servers) ==
    Put(config_data, "mcpServers",
        DictFromPairs([i \in 1..Len(servers) |->
            [k |-> servers[i].name, v |-> Cursor_claude_server_config(servers[i])]]))

Cursor_native_server_config(server) ==
    LET command_str == IF Len(server.args) > 0
                       THEN server.command \o <<Blank>> \o JoinBlank(server.args)
                       ELSE server.command
        cursor_type == IF server.server_type = STDIO THEN "command"
                       ELSE IF server.server_type = SSE THEN "sse"
                       ELSE IF server.server_type = HTTP THEN "http"
                       ELSE "command"
    IN  [name |-> server.name, type |-> cursor_type, command |-> command_str,
         enabled |-> server.enabled]

_save_cursor_format(config_data, servers) ==
    Put(config_data, "servers",
        [i \in 1..Len(servers) |-> Cursor_native_server_config(servers[i])])

CursorFresh == [version |-> "1.0"]

\* variant: the servers list of a file in both formats is kept
Cursor_save_servers_keep(f, servers) ==
    IF f.tag = "nonobj" THEN [err |-> "TypeError", file |-> f]
    ELSE LET read == ExistingOr(f, CursorFresh)
             detected == IF f.tag = "obj" THEN _detect_config_format(read) ELSE "cursor"
             existing_format == IF detected = "both" THEN "claude" ELSE detected
         IN  [err |-> "none",
              file |-> Written(IF existing_format = "claude"
                               THEN _save_claude_format(read, servers)
                               ELSE _save_cursor_format(read, servers))]
Cursor_save_servers(f, servers) ==
    IF f.tag = "nonobj" THEN [err |-> "TypeError", file |-> f]
    ELSE LET read == ExistingOr(f, CursorFresh)
             detected == IF f.tag = "obj" THEN _detect_config_format(read) ELSE "cursor"
             config_data == IF detected = "both" THEN Del(read, "servers") ELSE read
             existing_format == IF detected = "both" THEN "claude" ELSE detected
         IN  [err |-> "none",
              file |-> Written(IF existing_format = "claude"
                               THEN _save_claude_format(config_data, servers)
                               ELSE _save_cursor_format(config_data, servers))]

-----------------------------------------------------------------------------
(* clients/vscode.py *)

VSCode_entry_to_server(name, server_config) ==
    MCPServer(name,
              Get(server_config, "command", <<>>),
              Get(server_config, "args", <<>>),
              Get(server_config, "env", {}),
              MapType(Get(server_config, "type", "stdio")),
              Get(server_config, "url", None), TRUE,
              TRUE, Get(server_config, "description", "VS Code MCP Server"))

VSCode_load_servers(f) ==
    IF ~config_exists(f) THEN Ok(<<>>)
    ELSE IF f.tag = "corrupt" THEN Raise("ClientHandlerError")
    ELSE IF f.tag = "nonobj" THEN Raise("AttributeError")
    ELSE LET mcp_config == Get(f.top, "mcp", EmptyObj)
             server_configs == Get(mcp_config, "servers", <<>>) IN
         Collect([i \in 1..Len(server_configs) |->
                    VSCode_entry_to_server(server_configs[i].k, server_configs[i].v)])

VSCode_server_config(server) ==
    LET base == [command |-> server.command, args |-> server.args]
        withEnv == IF server.env # {} THEN Put(base, "env", server.env) ELSE base
        typed == IF server.server_type # STDIO THEN Put(withEnv, "type", server.server_type) ELSE withEnv
    IN  IF UrlTruthy(server.url) THEN Put(typed, "url", server.url) ELSE typed

VSCode_save_servers(f, servers) ==
    IF f.tag = "nonobj" THEN [err |-> "TypeError", file |-> f]
    ELSE LET read == ExistingOr(f, EmptyObj)
             config_data == IF "mcp" \notin DOMAIN read THEN Put(read, "mcp", EmptyObj) ELSE read
             server_configs == DictFromPairs([i \in 1..Len(servers) |->
                                 [k |-> servers[i].name, v |-> VSCode_server_config(servers[i])]])
         IN [err |-> "none",
             file |-> Written(Put(config_data, "mcp",
                                  Put(config_data["mcp"], "servers", server_configs)))]

-----------------------------------------------------------------------------
(* clients/gemini_cli.py *)

\* a or b on optional strings
OrElse(a, b) == IF UrlTruthy(a) THEN a ELSE b

GeminiDescription == "Gemini CLI MCP Server (timeout, cwd)"

Gemini_entry_to_server(name, server_config) ==
    LET timeout == Get(server_config, "timeout", None)
        cwd == Get(server_config, "cwd", None)
    IN  MCPServer(name,
                  Get(server_config, "command", <<>>),
                  Get(server_config, "args", <<>>),
                  Get(server_config, "env", {}),
                  MapType(Get(server_config, "type", "stdio")),
                  OrElse(Get(server_config, "url", None), Get(server_config, "httpUrl", None)), TRUE,
                  Get(server_config, "trust", TRUE),
                  Get(server_config, "description",
                      IF UrlTruthy(timeout) \/ UrlTruthy(cwd) THEN GeminiDescription ELSE None))

Gemini_load_servers(f) ==
    IF ~config_exists(f) THEN Ok(<<>>)
    ELSE IF f.tag = "corrupt" THEN Raise("ClientHandlerError")
    ELSE IF f.tag = "nonobj" THEN Raise("AttributeError")
    ELSE LET mcp_servers == Get(f.top, "mcpServers", <<>>) IN
         Collect([i \in 1..Len(mcp_servers) |->
                    Gemini_entry_to_server(mcp_servers[i].k, mcp_servers[i].v)])

Gemini_server_config(server) ==
    LET base == [command |-> server.command, args |-> server.args, env |-> server.env,
                 trust |-> server.enabled]
        typed == IF server.server_type # STDIO THEN Put(base, "type", server.server_type) ELSE base
    IN  IF UrlTruthy(server.url)
        THEN (IF server.server_type = HTTP
              THEN Put(typed, "httpUrl", server.url)
              ELSE Put(typed, "url", server.url))
        ELSE typed

Gemini_save_servers(f, servers) ==
    IF f.tag = "nonobj" THEN [err |-> "TypeError", file |-> f]
    ELSE LET config_data == ExistingOr(f, EmptyObj)
             mcp_servers == DictFromPairs([i \in 1..Len(servers) |->
                               [k |-> servers[i].name, v |-> Gemini_server_config(servers[i])]])
         IN [err |-> "none", file |-> Written(Put(config_data, "mcpServers", mcp_servers))]

-----------------------------------------------------------------------------
(* clients/opencode.py *)

\* url.startswith("http://") and "sse" in url, for the URLs that occur in the model
StartsWithHttp(url) == url \in {"http://h/mcp", "http://h/sse"}
ContainsSse(url) == url \in {"http://h/sse", "https://h/sse"}

Skip == [ok |-> TRUE, skip |-> TRUE]

OpenCode_entry_to_server(server_id, server_config) ==
    LET server_type == Get(server_config, "type", "local")
        enabled == Get(server_config, "enabled", TRUE)
    IN  IF server_type = "local"
        THEN LET command_list == Get(server_config, "command", <<>>) IN
             IF Len(command_list) = 0 THEN Skip
             ELSE MCPServer(server_id, command_list[1], Tail(command_list),
                            Get(server_config, "environment", {}),
                            STDIO, None, FALSE, enabled, None)
        ELSE IF server_type = "remote"
        THEN LET url == Get(server_config, "url", "") IN
             IF ~UrlTruthy(url) THEN Skip
             ELSE MCPServer(server_id, <<>>, <<>>, {},
                            IF StartsWithHttp(url) /\ ~ContainsSse(url) THEN HTTP ELSE SSE,
                            url, TRUE, enabled, None)
        ELSE Skip

IsSkip(r) == "skip" \in DOMAIN r

OpenCode_load_servers(f) ==
    IF ~config_exists(f) THEN Ok(<<>>)
    ELSE IF f.tag = "corrupt" THEN Raise("ClientHandlerError")
    ELSE IF f.tag = "nonobj" THEN Raise("AttributeError")
    ELSE LET mcp_config == Get(f.top, "mcp", <<>>)
             results == [i \in 1..Len(mcp_config) |->
                            OpenCode_entry_to_server(mcp_config[i].k, mcp_config[i].v)]
         IN  Collect(SelectSeq(results, LAMBDA r : ~IsSkip(r)))

OpenCodeSchema == "https://opencode.ai/config.json"

\* the entry written for a server, or Skip for "invalid configurations"
OpenCode_server_config(server) ==
    IF server.server_type = STDIO /\ Truthy(server.command)
    THEN LET base == [type |-> "local", command |-> <<server.command>> \o server.args,
                      enabled |-> server.enabled]
         IN  IF server.env # {} THEN Put(base, "environment", server.env) ELSE base
    ELSE IF server.server_type \in {SSE, HTTP} /\ UrlTruthy(server.url)
    THEN [type |-> "remote", url |-> server.url, enabled |-> server.enabled]
    ELSE Skip

OpenCode_save_servers(f, servers) ==
    IF f.tag = "nonobj" THEN [err |-> "TypeError", file |-> f]
    ELSE LET read == ExistingOr(f, EmptyObj)
             config_data == IF "$schema" \notin DOMAIN read
                            THEN Put(read, "$schema", OpenCodeSchema) ELSE read
             kept == SelectSeq(servers, LAMBDA s : ~IsSkip(OpenCode_server_config(s)))
             mcp_config == DictFromPairs([i \in 1..Len(kept) |->
                               [k |-> kept[i].name, v |-> OpenCode_server_config(kept[i])]])
         IN [err |-> "none", file |-> Written(Put(config_data, "mcp", mcp_config))]

-----------------------------------------------------------------------------
(* clients/base.py: the operation set shared by the handlers *)

CLAUDE_CODE == "claude-code"
CLAUDE_DESKTOP == "claude-desktop"
CURSOR == "cursor"
VSCODE == "vscode"
GEMINI_CLI == "gemini-cli"
OPENCODE == "opencode"

\* the handler classes under clients/
HandlerKinds == {CLAUDE_CODE, CURSOR, VSCODE, GEMINI_CLI, OPENCODE}

\* variant: loading needs the file to exist
load_servers_existing(k, f) ==
    IF ~config_exists(f) THEN Raise("ClientHandlerError")
    ELSE CASE k = CLAUDE_CODE -> ClaudeCode_load_servers(f)
           [] k = CURSOR -> Cursor_load_servers(f)
           [] k = VSCODE -> VSCode_load_servers(f)
           [] k = GEMINI_CLI -> Gemini_load_servers(f)
           [] k = OPENCODE -> OpenCode_load_servers(f)
load_servers(k, f) ==
    CASE k = CLAUDE_CODE -> ClaudeCode_load_servers(f)
      [] k = CURSOR -> Cursor_load_servers(f)
      [] k = VSCODE -> VSCode_load_servers(f)
      [] k = GEMINI_CLI -> Gemini_load_servers(f)
      [] k = OPENCODE -> OpenCode_load_servers(f)

save_servers(k, f, servers) ==
    CASE k = CLAUDE_CODE -> ClaudeCode_save_servers(f, servers)
      [] k = CURSOR -> Cursor_save_servers(f, servers)
      [] k = VSCODE -> VSCode_save_servers(f, servers)
      [] k = GEMINI_CLI -> Gemini_save_servers(f, servers)
      [] k = OPENCODE -> OpenCode_save_servers(f, servers)

\* add_server: load, drop the same-named records, append, save
add_server(k, f, server) ==
    LET loaded == load_servers(k, f) IN
    IF loaded.err # "none" THEN [err |-> loaded.err, file |-> f]
    ELSE save_servers(k, f, Append(WithoutName(loaded.v, server.name), server))

\* remove_server: [err, v (the returned bool), file]
remove_server(k, f, server_name) ==
    LET loaded == load_servers(k, f) IN
    IF loaded.err # "none" THEN [err |-> loaded.err, v |-> FALSE, file |-> f]
    ELSE LET servers == WithoutName(loaded.v, server_name) IN
         IF Len(servers) < Len(loaded.v)
         THEN LET saved == save_servers(k, f, servers) IN
              [err |-> saved.err, v |-> saved.err = "none", file |-> saved.file]
         ELSE [err |-> "none", v |-> FALSE, file |-> f]

NotFound == [name |-> None]

\* get_server: the first loaded record with that name, or NotFound (Python None)
get_server(k, f, server_name) ==
    LET loaded == load_servers(k, f) IN
    IF loaded.err # "none" THEN loaded
    ELSE IF \E i \in 1..Len(loaded.v) : loaded.v[i].name = server_name
         THEN Ok(loaded.v[CHOOSE i \in 1..Len(loaded.v) :
                            /\ loaded.v[i].name = server_name
                            /\ \A j \in 1..(i - 1) : loaded.v[j].name # server_name])
         ELSE Ok(NotFound)

\* the top-level keys under which a handler stores MCP servers
StorageKeys(k) ==
    CASE k = CLAUDE_CODE -> {"mcpServers"}
      [] k = CURSOR -> {"mcpServers", "servers"}
      [] k = VSCODE -> {"mcp"}
      [] k = GEMINI_CLI -> {"mcpServers"}
      [] k = OPENCODE -> {"mcp"}

\* Backup paths. The default path of a handler is
\* <config-dir>/backups/<tool>_<timestamp>.json; an explicit path is any other path.
DefaultBackupPath(k, now) == [k |-> k, dir |-> "backups", ts |-> now]

ExplicitPaths == {[k |-> "-", dir |-> "existing", ts |-> -1],
                  [k |-> "-", dir |-> "new", ts |-> -1]}

NoPath == [k |-> "-", dir |-> "-", ts |-> -1]

\* a directory exists when it was there from the start or a backup was written into it
DirExists(b, dir) == dir = "existing" \/ \E p \in DOMAIN b : p.dir = dir

\* backup_config: [err, v (the returned path), backups]
backup_config(k, f, b, backup_path, now) ==
    IF ~config_exists(f) THEN [err |-> "ClientHandlerError", v |-> NoPath, backups |-> b]
    ELSE LET path == IF backup_path = NoPath THEN DefaultBackupPath(k, now) ELSE backup_path IN
         IF k = GEMINI_CLI /\ backup_path # NoPath /\ ~DirExists(b, path.dir)
         THEN [err |-> "ClientHandlerError", v |-> NoPath, backups |-> b]
         ELSE [err |-> "none", v |-> path,
               backups |-> [p \in DOMAIN b \cup {path} |-> IF p = path THEN f ELSE b[p]]]

\* restore_config: [err, file]
\* variant: the backup is validated and the config file is not written
restore_config_unwritten(k, f, b, backup_path) ==
    IF backup_path \notin DOMAIN b THEN [err |-> "ClientHandlerError", file |-> f]
    ELSE IF ~JsonLoads(b[backup_path])
         THEN [err |-> IF k = GEMINI_CLI THEN "ClientHandlerError" ELSE "ConfigurationError",
               file |-> f]
         ELSE [err |-> "none", file |-> f]
restore_config(k, f, b, backup_path) ==
    IF backup_path \notin DOMAIN b THEN [err |-> "ClientHandlerError", file |-> f]
    ELSE IF ~JsonLoads(b[backup_path])
         THEN [err |-> IF k = GEMINI_CLI THEN "ClientHandlerError" ELSE "ConfigurationError",
               file |-> f]
         ELSE [err |-> "none", file |-> b[backup_path]]

-----------------------------------------------------------------------------
(* Inputs: server records and starting configuration files *)

Word(w) == <<w>>
NoBackups == [p \in {} |-> Missing]

Names == {"a", "b"}

PNpx == [command |-> Word("npx"), args |-> <<Word("-y")>>, env |-> {},
         server_type |-> STDIO, url |-> None, enabled |-> TRUE, description |-> None]
PNode == [command |-> Word("node"), args |-> <<>>, env |-> {<<"K", "v">>},
          server_type |-> STDIO, url |-> None, enabled |-> FALSE, description |-> "d"]
PSse == [command |-> <<>>, args |-> <<>>, env |-> {},
         server_type |-> SSE, url |-> "http://h/sse", enabled |-> TRUE, description |-> None]
PHttp == [command |-> <<>>, args |-> <<>>, env |-> {},
          server_type |-> HTTP, url |-> "https://h/mcp", enabled |-> TRUE, description |-> None]
PNoCommand == [command |-> <<>>, args |-> <<>>, env |-> {},
               server_type |-> STDIO, url |-> None, enabled |-> TRUE, description |-> None]
PBlankArg == [command |-> Word("sh"), args |-> <<<<"x", Blank, "y">>>>, env |-> {},
              server_type |-> STDIO, url |-> None, enabled |-> TRUE, description |-> None]

\* MCPServer(name=n, **payload)
Named(n, p) == MCPServer(n, p.command, p.args, p.env, p.server_type, p.url, TRUE,
                         p.enabled, p.description).v

\* the records handed to add_server
Records == {Named("a", PNpx), Named("a", PNode), Named("a", PNoCommand), Named("a", PBlankArg),
            Named("b", PNpx), Named("b", PSse), Named("b", PHttp)}

MaxSaveLen == 2

\* the records handed to save_servers, in lists of at most MaxSaveLen
SaveRecs == {Named("a", PNoCommand), Named("b", PSse)}

SaveLists == UNION {[1..n -> SaveRecs] : n \in 0..MaxSaveLen}

Theme == [theme |-> "dark"]

EntryNpx == [command |-> Word("npx"), args |-> <<Word("-y")>>, env |-> {}]
EntryNode == [command |-> Word("node"), args |-> <<>>, env |-> {<<"K", "v">>}]
EntrySse == [command |-> <<>>, args |-> <<>>, env |-> {}, type |-> "sse", url |-> "http://h/sse"]

Pair(key, val) == [k |-> key, v |-> val]

ClaudeCodeFiles == {
    Missing, Corrupt, NonObj,
    Obj(Theme),
    Obj(Put(Theme, "mcpServers", <<Pair("a", EntryNpx)>>)),
    Obj(Put(Theme, "mcpServers", <<Pair("a", EntryNode), Pair("b", EntrySse)>>))}

NativeNpx(n) == [name |-> n, type |-> "command", command |-> <<"npx", Blank, "-y">>, enabled |-> TRUE]
NativeNode(n) == [name |-> n, type |-> "command", command |-> <<"node">>, enabled |-> FALSE]
NativeSse(n) == [name |-> n, type |-> "sse", command |-> <<>>, enabled |-> TRUE]

CursorFiles == {
    Missing, Corrupt, NonObj,
    Obj(CursorFresh),
    Obj(Put(CursorFresh, "mcpServers", <<Pair("a", EntryNpx)>>)),
    Obj(Put(CursorFresh, "servers", <<NativeNpx("a"), NativeNode("b")>>)),
    Obj(Put(Put(CursorFresh, "mcpServers", <<Pair("a", EntryNode)>>), "servers", <<NativeNpx("a")>>)),
    Obj(Put(Put(Theme, "mcpServers", <<Pair("a", EntryNpx)>>), "servers", <<NativeSse("b")>>))}

VSCodeFiles == {
    Missing, Corrupt, NonObj,
    Obj(Theme),
    Obj(Put(Theme, "mcp", [servers |-> <<Pair("a", Put(EntryNpx, "description", "fs")),
                                         Pair("b", EntrySse)>>,
                           inputs |-> "prompts"])),
    Obj([inputs |-> "prompts", servers |-> <<Pair("a", EntryNpx), Pair("b", EntryNode)>>])}

GeminiFiles == {
    Missing, Corrupt, NonObj,
    Obj(Theme),
    Obj(Put(Theme, "mcpServers",
            <<Pair("a", Put(Put(EntryNpx, "trust", FALSE), "cwd", "/w")),
              Pair("b", [command |-> <<>>, type |-> "http", httpUrl |-> "https://h/mcp"])>>))}

LocalNpx == [type |-> "local", command |-> <<Word("npx"), Word("-y")>>, enabled |-> TRUE]
RemoteSse == [type |-> "remote", url |-> "http://h/sse", enabled |-> FALSE]

OpenCodeFiles == {
    Missing, Corrupt, NonObj,
    Obj(Theme),
    Obj(Put(Put(Theme, "$schema", OpenCodeSchema), "mcp",
            <<Pair("a", LocalNpx), Pair("b", RemoteSse)>>)),
    Obj(Put(Theme, "mcp",
            <<Pair("a", Put(LocalNpx, "environment", {<<"K", "v">>})),
              Pair("c", [type |-> "weird"])>>))}

InitFiles(k) ==
    CASE k = CLAUDE_CODE -> ClaudeCodeFiles
      [] k = CURSOR -> CursorFiles
      [] k = VSCODE -> VSCodeFiles
      [] k = GEMINI_CLI -> GeminiFiles
      [] k = OPENCODE -> OpenCodeFiles

-----------------------------------------------------------------------------
(* Handler calls on one client's configuration file *)

SyncOff == [pc |-> "off"]

NoPrev == [op |-> "none"]

NoBk == [has |-> FALSE]

\* the call just made: its name, argument, result and the file it started from;
\* prev summarises the call before it; bk is the latest backup taken, while only
\* add, remove, save, load and get calls have followed it
Call(op, arg, ret, pre, prev, bk) ==
    [op |-> op, arg |-> arg, ret |-> ret, pre |-> pre, prev |-> prev, bk |-> bk]

\* summary of a call, kept for one more step
Summary(h) ==
    IF h.op = "add" /\ h.ret.err = "none"
    THEN [op |-> "add", name |-> h.arg.name,
          names |-> LET l == load_servers(kind, h.pre) IN
                    IF l.err = "none" THEN NamesOf(l.v) ELSE {}]
    ELSE NoPrev

\* one handler, constructed on a config path holding one of the files F(kind)
InitOn(F) ==
    /\ kind \in HandlerKinds
    /\ files \in {[k \in {kind} |-> f] : f \in F[kind]}
    /\ backups = NoBackups
    /\ clock = 0
    /\ hist = Call("init", None, Ok(None), files[kind], NoPrev, NoBk)
    /\ registry = <<>>
    /\ sync = SyncOff

Init == InitOn([k \in HandlerKinds |-> InitFiles(k)])

File == files[kind]

\* the backup still being followed after the call in hist
Followed == IF hist.op = "restore" THEN NoBk ELSE hist.bk

Step(op, arg, ret, file) ==
    /\ files' = [files EXCEPT ![kind] = file]
    /\ hist' = Call(op, arg, ret, File, Summary(hist), Followed)
    /\ UNCHANGED <<kind, registry, sync>>

LoadOp ==
    /\ Step("load", None, load_servers(kind, File), File)
    /\ UNCHANGED <<backups, clock>>

GetOp(N) ==
    \E n \in N :
        /\ Step("get", n, get_server(kind, File, n), File)
        /\ UNCHANGED <<backups, clock>>

AddOp(R) ==
    \E r \in R :
        LET res == add_server(kind, File, r) IN
        /\ Step("add", r, [err |-> res.err, v |-> None], res.file)
        /\ UNCHANGED <<backups, clock>>

RemoveOp(N) ==
    \E n \in N :
        LET res == remove_server(kind, File, n) IN
        /\ Step("remove", n, [err |-> res.err, v |-> res.v], res.file)
        /\ UNCHANGED <<backups, clock>>

SaveOp(L) ==
    \E servers \in L :
        LET res == save_servers(kind, File, servers) IN
        /\ Step("save", servers, [err |-> res.err, v |-> None], res.file)
        /\ UNCHANGED <<backups, clock>>

Next ==
    \/ LoadOp
    \/ GetOp(Names)
    \/ AddOp(Records)
    \/ RemoveOp(Names)
    \/ SaveOp(SaveLists)

Spec == Init /\ [][Next]_vars

-----------------------------------------------------------------------------
(* Vocabulary of the properties *)

\* the format a cursor file is in ("none" for a file without a JSON object)
CursorFormat(f) == IF f.tag = "obj" THEN _detect_config_format(f.top) ELSE "none"

\* a command or argument with an embedded blank: the documented loss of cursor's native format
HasBlankWord(r) == HasBlank(r.command) \/ \E i \in 1..Len(r.args) : HasBlank(r.args[i])

\* the fields of record r that handler k's format, as found in file f, has a native place for
NativeFields(k, f, r) ==
    CASE k = CLAUDE_CODE -> {"name", "command", "args", "env", "server_type", "url"}
      [] k = VSCODE -> {"name", "command", "args", "env", "server_type", "url"}
      [] k = GEMINI_CLI -> {"name", "command", "args", "env", "server_type", "url", "enabled"}
      [] k = CURSOR ->
           IF CursorFormat(f) = "cursor"
           THEN {"name", "server_type", "enabled"}
                    \cup (IF HasBlankWord(r) THEN {} ELSE {"command", "args"})
           ELSE {"name", "command", "args", "env", "server_type", "url", "enabled"}
      [] k = OPENCODE ->
           IF r.server_type = STDIO
           THEN {"name", "command", "args", "env", "server_type", "enabled"}
           ELSE {"name", "url", "enabled"}

\* record g carries r's values in every field the format represents
SameNative(k, f, r, g) ==
    /\ \A fld \in NativeFields(k, f, r) : g[fld] = r[fld]
    /\ (k = OPENCODE /\ r.server_type # STDIO) => g.server_type # STDIO

Loaded == load_servers(kind, File)
LoadedBefore == load_servers(kind, hist.pre)

DistinctNames(servers) == \A i, j \in 1..Len(servers) : servers[i].name = servers[j].name => i = j

-----------------------------------------------------------------------------
(* Properties of the handlers *)

\* C1 (as claimed): after add(r1) then add(r2) with r2.name = r1.name, load() holds exactly
\* one record of that name, it carries r2's values in every field the format represents,
\* and the records of other names are still there.
C1_IdempotentAdd ==
    (hist.op = "add" /\ hist.prev.op = "add" /\ hist.prev.name = hist.arg.name) =>
        /\ hist.ret.err = "none"
        /\ Loaded.err = "none"
        /\ CountName(Loaded.v, hist.arg.name) = 1
        /\ \A i \in 1..Len(Loaded.v) :
               Loaded.v[i].name = hist.arg.name => SameNative(kind, File, hist.arg, Loaded.v[i])
        /\ (hist.prev.names \ {hist.arg.name}) \subseteq NamesOf(Loaded.v)

\* C2 (as claimed): after add(r), get(r.name) returns a record equal to r in every field
\* the format represents.
C2_RoundTrip ==
    (hist.op = "add" /\ hist.ret.err = "none") =>
        LET got == get_server(kind, File, hist.arg.name) IN
        /\ got.err = "none"
        /\ got.v # NotFound
        /\ SameNative(kind, File, hist.arg, got.v)

\* C3: save, add and remove on a parseable config leave every top-level key other than
\* the handler's storage keys present with the value it had.
C3_SiblingKeysKept ==
    (hist.op \in {"save", "add", "remove"} /\ hist.pre.tag = "obj") =>
        /\ File.tag = "obj"
        /\ \A key \in DOMAIN hist.pre.top \ StorageKeys(kind) :
               key \in DOMAIN File.top /\ File.top[key] = hist.pre.top[key]

C3_Witness ==
    /\ hist.op \in {"save", "add", "remove"}
    /\ hist.ret.err = "none"
    /\ hist.pre.tag = "obj"
    /\ "theme" \in DOMAIN hist.pre.top
    /\ File # hist.pre

\* C4 (as claimed): remove(name) returns true exactly when load() had a record of that
\* name; then load() has exactly one record less and get(name) finds nothing; otherwise
\* the file is left as it was.
C4_Remove ==
    (hist.op = "remove" /\ hist.ret.err = "none" /\ LoadedBefore.err = "none") =>
        /\ hist.ret.v = (hist.arg \in NamesOf(LoadedBefore.v))
        /\ hist.ret.v =>
              /\ Loaded.err = "none"
              /\ Len(Loaded.v) = Len(LoadedBefore.v) - 1
              /\ get_server(kind, File, hist.arg) = Ok(NotFound)
        /\ ~hist.ret.v => File = hist.pre

C7_BothFormats ==
    /\ (kind = CURSOR /\ hist.op = "load" /\ CursorFormat(File) = "both") =>
           /\ hist.ret.err = "none"
           /\ Len(hist.ret.v) = Len(File.top["mcpServers"]) + Len(File.top["servers"])
           /\ \A i \in 1..Len(File.top["mcpServers"]) :
                  hist.ret.v[i].name = File.top["mcpServers"][i].k
           /\ \A i \in 1..Len(File.top["servers"]) :
                  hist.ret.v[Len(File.top["mcpServers"]) + i].name = File.top["servers"][i].name
    /\ (kind = CURSOR /\ hist.op \in {"save", "add", "remove"} /\ hist.ret.err = "none"
            /\ CursorFormat(hist.pre) = "both" /\ File # hist.pre) =>
           /\ "mcpServers" \in DOMAIN File.top
           /\ "servers" \notin DOMAIN File.top

C7_Witness ==
    /\ kind = CURSOR
    /\ hist.op = "save"
    /\ hist.ret.err = "none"
    /\ CursorFormat(hist.pre) = "both"
    /\ Len(hist.arg) > 0
    /\ Loaded.err = "none"
    /\ Len(Loaded.v) = Len(hist.arg)

-----------------------------------------------------------------------------
(* Backup and restore of one client's configuration file *)

MaxClock == 1

\* backup files kept at any one time
MaxBackups == 1

BkRecords == {Named("a", PNpx)}

BkLists == {<<Named("b", PSse)>>}

\* starting files of the backup runs: no file, a corrupt file, a populated file
BkFiles(k) == {f \in InitFiles(k) : f.tag \in {"missing", "corrupt"} \/
                                     (f.tag = "obj" /\ "theme" \in DOMAIN f.top
                                        /\ \E key \in StorageKeys(k) : key \in DOMAIN f.top)}

InitBackup == InitOn([k \in HandlerKinds |-> BkFiles(k)])

Tick ==
    /\ clock < MaxClock
    /\ clock' = clock + 1
    /\ UNCHANGED <<kind, files, backups, hist, registry, sync>>

BackupOp ==
    \E path \in {NoPath} \cup ExplicitPaths :
        LET res == backup_config(kind, File, backups, path, clock) IN
        /\ Cardinality(DOMAIN res.backups) <= MaxBackups
        /\ backups' = res.backups
        /\ hist' = Call("backup", path, [err |-> res.err, v |-> res.v], File, Summary(hist),
                        IF res.err = "none"
                        THEN [has |-> TRUE, path |-> res.v, content |-> File]
                        ELSE Followed)
        /\ UNCHANGED <<kind, files, clock, registry, sync>>

RestoreOp ==
    \E path \in DOMAIN backups \cup ExplicitPaths :
        LET res == restore_config(kind, File, backups, path) IN
        /\ files' = [files EXCEPT ![kind] = res.file]
        /\ hist' = Call("restore", path, [err |-> res.err, v |-> None], File, Summary(hist),
                        Followed)
        /\ UNCHANGED <<kind, backups, clock, registry, sync>>

NextBackup ==
    \/ Tick
    \/ BackupOp
    \/ RestoreOp
    \/ AddOp(BkRecords)
    \/ RemoveOp({"a"})
    \/ SaveOp(BkLists)

SpecBackup == InitBackup /\ [][NextBackup]_vars

-----------------------------------------------------------------------------
(* The sync command: cli/commands/sync.py, on the registry's discovered clients *)

\* models.py ClientType, in declaration order
ClientType == <<CLAUDE_CODE, CLAUDE_DESKTOP, CURSOR, VSCODE>>

ClientTypes == {ClientType[i] : i \in 1..Len(ClientType)}

SeqToSet(s) == {s[i] : i \in 1..Len(s)}

\* ClientConfig of a discovered client; its config path is named after the client
ClientConfig(ct) == [client_type |-> ct, config_path |-> ct, is_available |-> TRUE]

\* registry.get_client
get_client(reg, client_type) ==
    IF \E i \in 1..Len(reg) : reg[i].client_type = client_type
    THEN Ok(reg[CHOOSE i \in 1..Len(reg) : reg[i].client_type = client_type])
    ELSE Raise("ClientNotFoundError")

\* registry.get_available_clients
get_available_clients(reg) == reg

\* variant: no requested name is ever missing
MissingNone(requested, available) == {}
\* requested_servers - available_servers
MissingServers(requested, available) == requested \ available

\* the source records kept by --servers (all of them when the option is not given)
FilterServers(source_servers, servers) ==
    IF Len(servers) > 0
    THEN SelectSeq(source_servers, LAMBDA s : s.name \in SeqToSet(servers))
    ELSE source_servers

\* variant: the source is not taken out of the targets
TargetsWithSource(reg, source, target_clients) ==
    IF Len(target_clients) > 0 THEN target_clients
    ELSE [i \in 1..Len(reg) |-> get_available_clients(reg)[i].client_type]
\* target_client_types: the --to clients, or every available client, without the source
TargetClientTypes(reg, source, target_clients) ==
    IF Len(target_clients) > 0
    THEN SelectSeq(target_clients, LAMBDA c : c # source)
    ELSE SelectSeq([i \in 1..Len(reg) |-> get_available_clients(reg)[i].client_type],
                   LAMBDA c : c # source)

\* the final report of the command
SummaryLine(success_count, total_operations) ==
    IF success_count = total_operations THEN "All operations successful!"
    ELSE IF success_count > 0 THEN "Some operations failed."
    ELSE "All operations failed."

Zero == [ct \in ClientTypes |-> 0]

\* sync_command just invoked with its options (the source client is in kind)
Invoked(target_clients, servers, overwrite, backup, dry_run, before) ==
    [pc |-> "start", target_clients |-> target_clients, servers |-> servers,
     overwrite |-> overwrite, backup |-> backup, dry_run |-> dry_run,
     source_servers |-> <<>>, target_client_types |-> <<>>, ti |-> 0, si |-> 0,
     existing_names |-> {}, client_success |-> 0, success_count |-> 0,
     total_operations |-> 0,
     synced |-> Zero, skipped |-> Zero, failed |-> Zero,  \* the per-operation lines printed
     out |-> {},           \* the other messages printed
     calls |-> {},         \* the handler methods called, by role and client
     accepted |-> 0,       \* conflict prompts answered yes
     ops |-> {},           \* the iterations of the record loop, by target and position
     before |-> before]    \* the configuration files when the command started

Printed(s, m) == [s EXCEPT !.out = @ \cup {m}]
Called(s, role, op, ct) == [s EXCEPT !.calls = @ \cup {[role |-> role, op |-> op, client |-> ct]}]
Return(s) == [s EXCEPT !.pc = "done"]

\* variant: the --dry-run flag is not looked at
DryRunIgnored(s) == FALSE
\* line 135: the --dry-run flag
DryRun(s) == s.dry_run

\* lines 45-143: load the source, select the servers, choose the targets, show the plan,
\* ask for confirmation; answer is the reply to "Sync n servers to m clients?"
Begin(s, answer) ==
    LET source_config == get_client(registry, kind) IN
    IF source_config.err # "none"
    THEN Return(Printed(s, [msg |-> "Source client not available"]))
    ELSE
    LET loaded == load_servers(kind, files[source_config.v.config_path])
        s1 == Called(s, "source", "load_servers", kind)
    IN
    IF loaded.err # "none" THEN Return(Printed(s1, [msg |-> "Error loading servers"]))
    ELSE IF Len(loaded.v) = 0 THEN Return(Printed(s1, [msg |-> "No servers found"]))
    ELSE
    LET missing_servers == MissingServers(SeqToSet(s.servers), NamesOf(loaded.v))
        source_servers == FilterServers(loaded.v, s.servers)
        target_client_types == TargetClientTypes(registry, kind, s.target_clients)
        s2 == [s1 EXCEPT !.source_servers = source_servers,
                         !.target_client_types = target_client_types]
    IN
    IF Len(s.servers) > 0 /\ missing_servers # {}
    THEN Return(Printed(s1, [msg |-> "Servers not found", names |-> missing_servers]))
    ELSE IF Len(target_client_types) = 0
    THEN Return(Printed(s1, [msg |-> "No target clients specified or available"]))
    ELSE IF DryRun(s) THEN Return(Printed(s2, [msg |-> "Dry run mode"]))
    ELSE IF ~s.overwrite /\ ~answer THEN Return(Printed(s2, [msg |-> "Sync cancelled"]))
    ELSE [s2 EXCEPT !.pc = "target", !.ti = 1]

SyncBegin ==
    /\ sync.pc = "start"
    /\ \E answer \in BOOLEAN : sync' = Begin(sync, answer)
    /\ UNCHANGED <<kind, files, backups, clock, hist, registry>>

\* variant: a target that cannot be processed ends the command
AbortOnTargetError(s) == Return(s)
\* lines 189-192: the except clauses of the target loop go on to the next target
AfterTargetError(s) == [s EXCEPT !.ti = @ + 1]

\* variant: a failed backup keeps the target from being loaded
LoadExistingIfBackedUp(t, f, bk_err) ==
    IF bk_err # "none" THEN Raise("ClientHandlerError") ELSE load_servers(t, f)
\* lines 163-165: the target's records are loaded whatever the backup (lines 156-161) did
LoadExisting(t, f, bk_err) == load_servers(t, f)

\* lines 149-168 and 189-192: the next target: its handle, the backup, the existing names
SyncTarget ==
    /\ sync.pc = "target"
    /\ sync.ti <= Len(sync.target_client_types)
    /\ LET t == sync.target_client_types[sync.ti]
           target_config == get_client(registry, t)
       IN
       IF target_config.err # "none"
       THEN /\ sync' = AfterTargetError(Printed(sync, [msg |-> "Target client not available",
                                                       client |-> t]))
            /\ UNCHANGED backups
       ELSE
       LET path == target_config.v.config_path
           bk == backup_config(t, files[path], backups, NoPath, clock)
           s1 == IF ~sync.backup THEN sync
                 ELSE Printed(Called(sync, "target", "backup_config", t),
                              [msg |-> IF bk.err = "none" THEN "Created backup"
                                       ELSE "Failed to create backup", client |-> t])
           existing_servers == LoadExisting(t, files[path],
                                            IF sync.backup THEN bk.err ELSE "none")
           s2 == Called(s1, "target", "load_servers", t)
       IN
       /\ backups' = IF sync.backup THEN bk.backups ELSE backups
       /\ sync' = IF existing_servers.err # "none"
                  THEN AfterTargetError(Printed(s2, [msg |-> "Error syncing", client |-> t]))
                  ELSE [s2 EXCEPT !.pc = "server", !.si = 1, !.client_success = 0,
                                  !.existing_names = NamesOf(existing_servers.v)]
    /\ UNCHANGED <<kind, files, clock, hist, registry>>

\* lines 169-183: one source record against the current target; answer is the reply to
\* "Server exists. Overwrite?" when that is asked
SyncServer ==
    /\ sync.pc = "server"
    /\ sync.si <= Len(sync.source_servers)
    /\ \E answer \in BOOLEAN :
        LET t == sync.target_client_types[sync.ti]
            path == get_client(registry, t).v.config_path
            server == sync.source_servers[sync.si]
            conflict == server.name \in sync.existing_names /\ ~sync.overwrite
            op == [client |-> t, i |-> sync.si, name |-> server.name,
                   existed |-> server.name \in sync.existing_names,
                   asked |-> conflict, added |-> ~(conflict /\ ~answer)]
            s1 == [sync EXCEPT !.total_operations = @ + 1, !.si = @ + 1,
                               !.ops = @ \cup {op}]
        IN
        IF conflict /\ ~answer
        THEN /\ sync' = [s1 EXCEPT !.skipped[t] = @ + 1]
             /\ UNCHANGED files
        ELSE \E added \in {add_server(t, files[path], server)} :
             /\ files' = [files EXCEPT ![path] = added.file]
             /\ sync' = LET s2 == [Called(s1, "target", "add_server", t)
                                      EXCEPT !.accepted = IF conflict THEN @ + 1 ELSE @]
                        IN IF added.err = "none"
                           THEN [s2 EXCEPT !.synced[t] = @ + 1, !.client_success = @ + 1]
                           ELSE [s2 EXCEPT !.failed[t] = @ + 1]
    /\ UNCHANGED <<kind, backups, clock, hist, registry>>

\* lines 185-187: the end of one target's loop, on to the next target
\* variant: a target that did not take every record is processed again
NextTargetOrRetry(s) ==
    [s EXCEPT !.pc = "target",
              !.ti = IF s.client_success < Len(s.source_servers) THEN @ ELSE @ + 1,
              !.success_count = @ + s.client_success]
NextTarget(s) ==
    [s EXCEPT !.pc = "target", !.ti = @ + 1, !.success_count = @ + s.client_success]

SyncTargetDone ==
    /\ sync.pc = "server"
    /\ sync.si > Len(sync.source_servers)
    /\ sync' = NextTarget(sync)
    /\ UNCHANGED <<kind, files, backups, clock, hist, registry>>

\* lines 194-203: the summary
SyncSummary ==
    /\ sync.pc = "target"
    /\ sync.ti > Len(sync.target_client_types)
    /\ sync' = Return(Printed(sync, [msg |-> "Sync Complete",
                                     line |-> SummaryLine(sync.success_count,
                                                          sync.total_operations)]))
    /\ UNCHANGED <<kind, files, backups, clock, hist, registry>>

NextSync == SyncBegin \/ SyncTarget \/ SyncServer \/ SyncTargetDone \/ SyncSummary

\* the clients with a handler and a configuration path on the modelled host
SyncKinds == {CLAUDE_CODE, CURSOR, VSCODE}

SyncFiles(k) ==
    CASE k = CLAUDE_CODE ->
           {Missing,
            Obj(Put(Theme, "mcpServers",
                    <<Pair("a", EntryNpx), Pair("b", EntryNode), Pair("c", EntrySse)>>))}
      [] k = CURSOR ->
           {Obj(Put(CursorFresh, "servers", <<NativeNpx("a")>>)),
            Obj(Put(CursorFresh, "servers", <<NativeSse("b"), NativeNpx("a")>>)),
            Obj(Put(Put(Theme, "mcpServers", <<Pair("a", EntryNpx)>>), "servers", <<NativeNode("a")>>))}
      [] k = VSCODE ->
           {Corrupt,
            Obj(Put(Theme, "mcp", [servers |-> <<Pair("b", Put(EntrySse, "description", "d"))>>]))}

\* the clients discovered on the host, in ClientType order
Registries == {<<ClientConfig(CLAUDE_CODE), ClientConfig(CURSOR), ClientConfig(VSCODE)>>,
               <<ClientConfig(CLAUDE_CODE), ClientConfig(CURSOR)>>,
               <<ClientConfig(CURSOR)>>}

\* the --to options
TargetOptions == {<<>>, <<CURSOR>>, <<CLAUDE_CODE, VSCODE>>, <<CLAUDE_DESKTOP, CURSOR>>}

\* the --servers options
ServerOptions == {<<>>, <<"a", "b">>, <<"b">>, <<"a", "zz">>, <<"zz", "yy">>}

InitSync ==
    /\ kind \in ClientTypes
    /\ files \in {f \in [SyncKinds -> UNION {SyncFiles(k) : k \in SyncKinds}] :
                      \A k \in SyncKinds : f[k] \in SyncFiles(k)}
    /\ backups = NoBackups
    /\ clock = 0
    /\ hist = Call("init", None, Ok(None), Missing, NoPrev, NoBk)
    /\ registry \in Registries
    /\ \E target_clients \in TargetOptions, servers \in ServerOptions,
          overwrite \in BOOLEAN, backup \in BOOLEAN, dry_run \in BOOLEAN :
           sync = Invoked(target_clients, servers, overwrite, backup, dry_run, files)

SpecSync == InitSync /\ [][NextSync]_vars

\* a record of the current target is still to be processed: SyncServer is enabled
ServerPending == sync.pc = "server" /\ sync.si <= Len(sync.source_servers)

\* the command is one sequential run: it keeps executing, and every prompt is answered.
\* The last conjunct is weak fairness of SyncServer with its enabling condition written out.
SpecSyncLive ==
    /\ SpecSync
    /\ WF_vars(SyncTarget) /\ WF_vars(SyncTargetDone) /\ WF_vars(SyncSummary)
    /\ ([]<>~ServerPending \/ []<><<SyncServer>>_vars)

-----------------------------------------------------------------------------
(* Properties of the sync command *)

Finished == sync.pc = "done"

Reported(m) == \E o \in sync.out : o.msg = m

\* the source records, as loaded from the file the command started on
SourceBefore ==
    IF get_client(registry, kind).err = "none"
    THEN load_servers(kind, sync.before[kind])
    ELSE Raise("ClientNotFoundError")

\* the names target t held when the command started
ExistingBefore(t) ==
    LET l == load_servers(t, sync.before[t]) IN
    IF l.err = "none" THEN NamesOf(l.v) ELSE {}

\* the selected source records whose name is (present = TRUE) or is not in target t
CountSelected(t, present) ==
    Cardinality({i \in 1..Len(sync.source_servers) :
                    (sync.source_servers[i].name \in ExistingBefore(t)) = present})

\* target t is a discovered client whose configuration loads
Loadable(t) ==
    /\ get_client(registry, t).err = "none"
    /\ load_servers(t, sync.before[t]).err = "none"

\* C8 (as claimed): in a finished sync without --overwrite in which every conflict prompt
\* was declined, each target that could be loaded got one successful add per selected
\* record absent from it and one skip per selected record present in it, and no failure
\* is reported for it.
C8_DeclinedCounts ==
    (Finished /\ Reported("Sync Complete") /\ ~sync.overwrite /\ sync.accepted = 0) =>
        \A t \in SeqToSet(sync.target_client_types) :
            Loadable(t) =>
                /\ sync.synced[t] = CountSelected(t, FALSE)
                /\ sync.skipped[t] = CountSelected(t, TRUE)
                /\ sync.failed[t] = 0

\* the command stopped on its source: nothing loaded from it, or a requested name not in it
StopsOnSource ==
    /\ sync.pc # "off"
    /\ SourceBefore.err = "none"
    /\ \/ Len(SourceBefore.v) = 0
       \/ SeqToSet(sync.servers) \ NamesOf(SourceBefore.v) # {}

\* C9: when the source loads to no record, or a --servers name is not in the source, the
\* command ends without calling any target's handler, without a backup and with every
\* file as it was, and its one report names all the missing names together.
C9_StopsBeforeTargets ==
    StopsOnSource =>
        /\ \A c \in sync.calls : c.role = "source"
        /\ files = sync.before
        /\ backups = NoBackups
        /\ sync.total_operations = 0
        /\ sync.pc \in {"start", "done"}
        /\ Finished =>
               IF Len(SourceBefore.v) = 0
               THEN sync.out = {[msg |-> "No servers found"]}
               ELSE sync.out = {[msg |-> "Servers not found",
                                 names |-> SeqToSet(sync.servers) \ NamesOf(SourceBefore.v)]}

C9_Witness ==
    /\ Finished
    /\ StopsOnSource
    /\ Len(SourceBefore.v) > 0
    /\ Cardinality(SeqToSet(sync.servers) \ NamesOf(SourceBefore.v)) = 2
    /\ Reported("Servers not found")

\* C10: the source client is never a target: it is not among the chosen targets, no
\* target-side handler call is made on it, it is not backed up, and its file stays as it was.
C10_SourceNotTarget ==
    sync.pc # "off" =>
        /\ kind \notin SeqToSet(sync.target_client_types)
        /\ \A c \in sync.calls : c.role = "target" => c.client # kind
        /\ \A p \in DOMAIN backups : p.k # kind
        /\ kind \in DOMAIN files => files[kind] = sync.before[kind]
        /\ sync.synced[kind] + sync.skipped[kind] + sync.failed[kind] = 0

C10_Witness ==
    /\ Finished
    /\ Reported("Sync Complete")
    /\ kind \in SeqToSet(sync.target_clients)
    /\ \E t \in ClientTypes : sync.synced[t] > 0

\* what get_server(name) gives on target t: in the files the command started on, and now
RecordBefore(t, name) == get_server(t, sync.before[t], name)
RecordNow(t, name) == get_server(t, files[t], name)

\* every conflict prompt for name on target t was declined, and at least one was asked
Declined(t, name) ==
    /\ \E o \in sync.ops : o.client = t /\ o.name = name /\ o.asked
    /\ \A o \in sync.ops : (o.client = t /\ o.name = name) => (o.asked /\ ~o.added)

\* C11 (as claimed): for each source record and target, add() is called exactly when no
\* same-named record existed in the target, or --overwrite was given, or the prompt was
\* confirmed; and a record whose prompt was declined is the same in the target after the
\* sync as it was before.
C11_AddExactlyWhen ==
    /\ \A o \in sync.ops :
           /\ o.existed = (o.name \in ExistingBefore(o.client))
           /\ o.added = (~o.existed \/ sync.overwrite \/ (o.asked /\ o.added))
           /\ (o.existed /\ ~sync.overwrite) => o.asked
    /\ Finished =>
           \A t \in SeqToSet(sync.target_client_types), n \in {o.name : o \in sync.ops} :
               Declined(t, n) =>
                   /\ RecordNow(t, n).err = "none"
                   /\ RecordNow(t, n).v = RecordBefore(t, n).v

\* the server names stored in file f of client k
EntryNames(k, f) ==
    IF f.tag # "obj" THEN {}
    ELSE CASE k = CLAUDE_CODE -> DictKeys(Get(f.top, "mcpServers", <<>>))
           [] k = CURSOR -> DictKeys(Get(f.top, "mcpServers", <<>>))
                               \cup {e.name : e \in SeqToSet(Get(f.top, "servers", <<>>))}
           [] k = VSCODE -> DictKeys(Get(Get(f.top, "mcp", EmptyObj), "servers", <<>>))

\* the loop reached target t and did what it could on it
Attempted(t) ==
    \/ [msg |-> "Target client not available", client |-> t] \in sync.out
    \/ [msg |-> "Error syncing", client |-> t] \in sync.out
    \/ \A i \in 1..Len(sync.source_servers) : \E o \in sync.ops : o.client = t /\ o.i = i

\* a step changes a file only by an add on the target being processed, and loses no name
NoRollback ==
    \A t \in DOMAIN files :
        files'[t] # files[t] =>
            /\ sync.pc = "server"
            /\ t = sync.target_client_types[sync.ti]
            /\ EntryNames(t, files[t]) \subseteq EntryNames(t, files'[t])

\* C12: a target that fails (not in the registry, load raising, add raising) does not stop
\* the sync: the targets are taken in order, every one of them is attempted, what was
\* written is never taken back, and a sync that started its targets reaches the summary.
C12_NotTransactional ==
    /\ [][NoRollback /\ sync'.ti >= sync.ti]_vars
    /\ [](Reported("Sync Complete") =>
            \A j \in 1..Len(sync.target_client_types) : Attempted(sync.target_client_types[j]))
    /\ []((Finished /\ sync.ti > 0) => Reported("Sync Complete"))
    /\ (sync.pc = "target") ~> (Finished /\ Reported("Sync Complete"))

C12_Witness ==
    /\ Finished
    /\ Reported("Sync Complete")
    /\ \E j, k \in 1..Len(sync.target_client_types) :
           /\ j < k
           /\ [msg |-> "Target client not available",
               client |-> sync.target_client_types[j]] \in sync.out
           /\ sync.synced[sync.target_client_types[k]] > 0

BackupFailed(t) == [msg |-> "Failed to create backup", client |-> t] \in sync.out

\* C13: a target whose backup failed is still loaded, is not reported as failed for that
\* reason, and in the finished sync every selected record was offered to it, with add()
\* called as for any other target.
C13_BackupFailureNotFatal ==
    \A t \in SeqToSet(sync.target_client_types) :
        BackupFailed(t) =>
            /\ [role |-> "target", op |-> "load_servers", client |-> t] \in sync.calls
            /\ ([msg |-> "Error syncing", client |-> t] \in sync.out)
                   = (load_servers(t, sync.before[t]).err # "none")
            /\ (Finished /\ Loadable(t)) =>
                   \A i \in 1..Len(sync.source_servers) :
                       \E o \in sync.ops :
                           /\ o.client = t /\ o.i = i
                           /\ o.added = (~o.existed \/ sync.overwrite \/ (o.asked /\ o.added))

C13_Witness ==
    /\ Finished
    /\ \E t \in SeqToSet(sync.target_client_types) :
           /\ BackupFailed(t)
           /\ sync.synced[t] = Len(sync.source_servers)
           /\ files[t] # sync.before[t]

\* C14: a sync run with --dry-run changes nothing, whatever the other options: no file is
\* written, no backup is made, and no handler of a target is called.
C14_DryRunNoChange ==
    (sync.pc # "off" /\ sync.dry_run) =>
        /\ files = sync.before
        /\ backups = NoBackups
        /\ \A c \in sync.calls : c.role = "source"
        /\ sync.ops = {}
        /\ sync.pc \in {"start", "done"}

C14_Witness ==
    /\ Finished
    /\ Reported("Dry run mode")
    /\ sync.overwrite /\ sync.backup
    /\ Len(sync.target_client_types) = 2
    /\ Len(sync.servers) > 0

-----------------------------------------------------------------------------
(* Properties of the handlers on missing and unparseable files *)

\* C15: on a config path with no file, load() returns the empty sequence, get(name)
\* returns nothing and remove(name) returns false, without error and without creating
\* the file.
C15_MissingFileLoad ==
    (hist.op \in {"load", "get", "remove"} /\ hist.pre = Missing) =>
        /\ hist.ret.err = "none"
        /\ hist.op = "load" => hist.ret.v = <<>>
        /\ hist.op = "get" => hist.ret.v = NotFound
        /\ hist.op = "remove" => hist.ret.v = FALSE
        /\ File = Missing

C15_Witness ==
    /\ hist.op = "remove"
    /\ hist.pre = Missing
    /\ hist.ret = [err |-> "none", v |-> FALSE]
    /\ File = Missing

\* C16 (as claimed): load() on an existing file that is not valid JSON, or whose top level
\* is not a JSON object, fails with ClientHandlerError and leaves the file unchanged.
C16_UnparseableLoad ==
    (hist.op = "load" /\ hist.pre.tag \in {"corrupt", "nonobj"}) =>
        /\ hist.ret.err = "ClientHandlerError"
        /\ File = hist.pre

-----------------------------------------------------------------------------
(* validate_config: the file's JSON values carry their Python type *)

JAbsent == [t |-> "absent"]
JNull == [t |-> "null"]
JStr(s) == [t |-> "str", s |-> s]
JBool(b) == [t |-> "bool", b |-> b]
JList(items) == [t |-> "list", items |-> items]
JDict(fields) == [t |-> "dict", fields |-> fields]

\* isinstance(x, dict), isinstance(x, list), isinstance(x, str), isinstance(x, bool)
IsDict(x) == x.t = "dict"
IsList(x) == x.t = "list"
IsStr(x) == x.t = "str"
IsBool(x) == x.t = "bool"

\* "x is not None"
NotNone(x) == x.t # "null"

\* bool(x)
JTruthy(x) ==
    CASE x.t = "null" -> FALSE
      [] x.t = "str" -> x.s # ""
      [] x.t = "bool" -> x.b
      [] x.t = "list" -> Len(x.items) > 0
      [] x.t = "dict" -> DOMAIN x.fields # {}

\* d.get(key): None when the key is absent
JGet(d, key) == IF key \in DOMAIN d.fields THEN d.fields[key] ELSE JNull

\* the checks on one entry shared by claude_code.py, vscode.py and cursor.py's _validate_claude_format
Entry_valid(server_config) ==
    /\ IsDict(server_config)
    /\ "command" \in DOMAIN server_config.fields
    /\ LET args == JGet(server_config, "args") IN ~(NotNone(args) /\ ~IsList(args))
    /\ LET env == JGet(server_config, "env") IN ~(NotNone(env) /\ ~IsDict(env))

Servers_valid(mcp_servers) ==
    /\ IsDict(mcp_servers)
    /\ \A name \in DOMAIN mcp_servers.fields : Entry_valid(mcp_servers.fields[name])

ClaudeCode_validate_config(f) ==
    IF ~config_exists(f) THEN Ok(TRUE)
    ELSE IF f.tag = "corrupt" THEN Ok(FALSE)
    ELSE IF f.tag = "nonobj" THEN Raise("AttributeError")
    ELSE Ok(Servers_valid(Get(f.top, "mcpServers", JDict(EmptyObj))))

\* "'key' in config_data and config_data['key']"
JHas(config_data, key) == key \in DOMAIN config_data /\ JTruthy(config_data[key])

Cursor_detect_typed(config_data) ==
    IF JHas(config_data, "mcpServers") /\ JHas(config_data, "servers") THEN "both"
    ELSE IF JHas(config_data, "mcpServers") THEN "claude"
    ELSE IF JHas(config_data, "servers") THEN "cursor"
    ELSE "none"

_validate_claude_format(config_data) ==
    Servers_valid(Get(config_data, "mcpServers", JDict(EmptyObj)))

Cursor_native_valid(server_config) ==
    /\ IsDict(server_config)
    /\ "name" \in DOMAIN server_config.fields /\ "command" \in DOMAIN server_config.fields
    /\ LET server_type == JGet(server_config, "type") IN
       ~(NotNone(server_type)
         /\ ~(IsStr(server_type) /\ server_type.s \in {"command", "sse", "http"}))
    /\ LET enabled == JGet(server_config, "enabled") IN ~(NotNone(enabled) /\ ~IsBool(enabled))

_validate_cursor_format(config_data) ==
    LET servers == Get(config_data, "servers", JList(<<>>)) IN
    /\ IsList(servers)
    /\ \A i \in 1..Len(servers.items) : Cursor_native_valid(servers.items[i])

\* a top-level list has neither key: format 'none', "No MCP config is valid"
Cursor_validate_config(f) ==
    IF ~config_exists(f) THEN Ok(TRUE)
    ELSE IF f.tag = "corrupt" THEN Ok(FALSE)
    ELSE IF f.tag = "nonobj" THEN Ok(TRUE)
    ELSE LET config_format == Cursor_detect_typed(f.top) IN
         IF config_format = "claude" THEN Ok(_validate_claude_format(f.top))
         ELSE IF config_format = "cursor" THEN Ok(_validate_cursor_format(f.top))
         ELSE IF config_format = "both"
         THEN Ok(_validate_claude_format(f.top) /\ _validate_cursor_format(f.top))
         ELSE Ok(TRUE)

VSCode_validate_config(f) ==
    IF ~config_exists(f) THEN Ok(TRUE)
    ELSE IF f.tag = "corrupt" THEN Ok(FALSE)
    ELSE IF f.tag = "nonobj" THEN Raise("AttributeError")
    ELSE LET mcp_config == Get(f.top, "mcp", JDict(EmptyObj)) IN
         IF ~IsDict(mcp_config) THEN Ok(FALSE)
         ELSE Ok(Servers_valid(Get(mcp_config.fields, "servers", JDict(EmptyObj))))

\* gemini tests "'args' in server_config": a null args or env is rejected
Gemini_entry_valid(server_config) ==
    /\ IsDict(server_config)
    /\ "command" \in DOMAIN server_config.fields
    /\ ~("args" \in DOMAIN server_config.fields /\ ~IsList(server_config.fields["args"]))
    /\ ~("env" \in DOMAIN server_config.fields /\ ~IsDict(server_config.fields["env"]))

Gemini_validate_config(f) ==
    IF ~config_exists(f) THEN Ok(TRUE)
    ELSE IF f.tag = "corrupt" THEN Ok(FALSE)
    ELSE IF f.tag = "nonobj" THEN Ok(FALSE)
    ELSE LET mcp_servers == Get(f.top, "mcpServers", JDict(EmptyObj)) IN
         Ok(/\ IsDict(mcp_servers)
            /\ \A name \in DOMAIN mcp_servers.fields :
                   Gemini_entry_valid(mcp_servers.fields[name]))

OpenCode_entry_valid(server_config) ==
    /\ IsDict(server_config)
    /\ LET server_type == JGet(server_config, "type") IN
       /\ IsStr(server_type) /\ server_type.s \in {"local", "remote"}
       /\ server_type.s = "local" =>
            /\ LET command == JGet(server_config, "command") IN
               IsList(command) /\ JTruthy(command)
            /\ LET environment == JGet(server_config, "environment") IN
               ~(NotNone(environment) /\ ~IsDict(environment))
       /\ server_type.s = "remote" =>
            LET url == JGet(server_config, "url") IN IsStr(url) /\ JTruthy(url)
    /\ "enabled" \in DOMAIN server_config.fields => IsBool(server_config.fields["enabled"])

OpenCode_validate_config(f) ==
    IF ~config_exists(f) THEN Ok(TRUE)
    ELSE IF f.tag = "corrupt" THEN Ok(FALSE)
    ELSE IF f.tag = "nonobj" THEN Raise("AttributeError")
    ELSE LET mcp_config == Get(f.top, "mcp", JDict(EmptyObj)) IN
         Ok(/\ IsDict(mcp_config)
            /\ \A server_id \in DOMAIN mcp_config.fields :
                   OpenCode_entry_valid(mcp_config.fields[server_id]))

validate_config(k, f) ==
    CASE k = CLAUDE_CODE -> ClaudeCode_validate_config(f)
      [] k = CURSOR -> Cursor_validate_config(f)
      [] k = VSCODE -> VSCode_validate_config(f)
      [] k = GEMINI_CLI -> Gemini_validate_config(f)
      [] k = OPENCODE -> OpenCode_validate_config(f)

\* a dict with the given values under the keys whose value is not JAbsent
Fields(vals) == JDict([key \in {x \in DOMAIN vals : vals[x].t # "absent"} |-> vals[key]])

\* the values an optional list-valued or mapping-valued field is given
AnyValue == {JAbsent, JNull, JStr("x"), JList(<<>>), JDict(EmptyObj)}

\* server entries of the mcpServers shape: every combination of command, args and env
StdEntries ==
    {JStr("x")} \cup
    {Fields([command |-> c, args |-> a, env |-> e]) :
        c \in {JAbsent, JStr("npx")}, a \in AnyValue, e \in AnyValue}

\* the section holding the entries: absent, of another type, or a dict of one entry
Sections(entries) ==
    {JAbsent, JNull, JStr("x"), JList(<<>>), JDict(EmptyObj)} \cup
    {JDict([name \in {"a"} |-> e]) : e \in entries}

WithSection(key, section) ==
    IF section.t = "absent" THEN Obj(Theme) ELSE Obj(Put(Theme, key, section))

NativeEntries ==
    {JStr("x")} \cup
    {Fields([name |-> n, command |-> c, type |-> ty, enabled |-> en]) :
        n \in {JAbsent, JStr("a")}, c \in {JAbsent, JStr("npx -y")},
        ty \in {JAbsent, JNull, JStr("sse"), JStr("stdio")},
        en \in {JAbsent, JBool(FALSE), JStr("yes")}}

OpenCodeEntries ==
    {JStr("x"), Fields([command |-> JList(<<JStr("npx")>>)])} \cup
    {Fields([type |-> JStr("local"), command |-> c, environment |-> e, enabled |-> en]) :
        c \in {JAbsent, JStr("npx"), JList(<<>>), JList(<<JStr("npx")>>)},
        e \in {JAbsent, JNull, JStr("x"), JDict(EmptyObj)},
        en \in {JAbsent, JBool(FALSE), JStr("yes")}} \cup
    {Fields([type |-> ty, url |-> u]) :
        ty \in {JStr("remote"), JStr("weird")},
        u \in {JAbsent, JStr(""), JStr("http://h/sse"), JList(<<>>)}}

\* the files validate_config is called on
ValidateFiles(k) ==
    {Missing, Corrupt, NonObj} \cup
    CASE k = CLAUDE_CODE -> {WithSection("mcpServers", s) : s \in Sections(StdEntries)}
      [] k = GEMINI_CLI -> {WithSection("mcpServers", s) : s \in Sections(StdEntries)}
      [] k = VSCODE ->
            {WithSection("mcp", s) : s \in {JStr("x")}} \cup
            {WithSection("mcp", JDict([key \in {"servers"} \ {x \in {"servers"} : s.t = "absent"} |-> s])) :
                s \in Sections(StdEntries)}
      [] k = CURSOR ->
            {WithSection("mcpServers", s) : s \in Sections(StdEntries)} \cup
            {WithSection("servers", s) :
                s \in {JStr("x"), JDict(EmptyObj)} \cup {JList(<<e>>) : e \in NativeEntries}} \cup
            {Obj([mcpServers |-> JDict([name \in {"a"} |-> Fields([command |-> JStr("npx")])]),
                  servers |-> JList(<<e>>)]) : e \in {JStr("x"), Fields([name |-> JStr("a"), command |-> JStr("npx")])}}
      [] k = OPENCODE -> {WithSection("mcp", s) : s \in Sections(OpenCodeEntries)}

InitValidate == InitOn([k \in HandlerKinds |-> ValidateFiles(k)])

\* validate_config() reads the file and returns
ValidateOp ==
    /\ hist.op = "init"
    /\ files' = files
    /\ hist' = Call("validate", None, validate_config(kind, File), File, NoPrev, NoBk)
    /\ UNCHANGED <<kind, registry, sync, backups, clock>>

SpecValidate == InitValidate /\ [][ValidateOp]_vars

\* the MCP-server section of file f as handler k looks it up (JAbsent when not there)
SectionOf(k, f) ==
    CASE k \in {CLAUDE_CODE, GEMINI_CLI} -> Get(f.top, "mcpServers", JAbsent)
      [] k = OPENCODE -> Get(f.top, "mcp", JAbsent)
      [] k = VSCODE -> LET mcp == Get(f.top, "mcp", JAbsent) IN
                       IF mcp.t = "dict" THEN Get(mcp.fields, "servers", JAbsent) ELSE mcp
      [] k = CURSOR -> Get(f.top, "mcpServers", JAbsent)

\* a present field of a present entry has another type than the one required
WrongField(e, key, type) == key \in DOMAIN e.fields /\ e.fields[key].t \notin {type, "null"}

\* the section or one of its entries has the wrong shape: the section is not a mapping, an
\* entry is not a mapping, lacks its required field, or has args that is not a list or env
\* that is not a mapping (a null args or env is left open)
WrongShape(k, f) ==
    LET s == SectionOf(k, f) IN
    /\ s.t # "absent"
    /\ \/ s.t # "dict"
       \/ \E name \in DOMAIN s.fields :
            LET e == s.fields[name] IN
            \/ e.t # "dict"
            \/ k # OPENCODE /\ ("command" \notin DOMAIN e.fields
                                \/ WrongField(e, "args", "list") \/ WrongField(e, "env", "dict"))
            \/ k = OPENCODE /\ ("type" \notin DOMAIN e.fields
                                \/ WrongField(e, "command", "list")
                                \/ WrongField(e, "environment", "dict"))

\* C17 (as claimed): validate_config() never raises and returns a boolean: true for a missing
\* file, false for a file that is not valid JSON, whose top level is not an object, or whose
\* MCP-server section or one of its entries has the wrong shape.
C17_ValidateNeverRaises ==
    hist.op = "validate" =>
        /\ hist.ret.err = "none"
        /\ hist.ret.v \in BOOLEAN
        /\ hist.pre.tag = "missing" => hist.ret.v = TRUE
        /\ hist.pre.tag \in {"corrupt", "nonobj"} => hist.ret.v = FALSE
        /\ (hist.pre.tag = "obj" /\ WrongShape(kind, hist.pre)) => hist.ret.v = FALSE

-----------------------------------------------------------------------------
(* Properties of backup_config and restore_config on their failure paths *)

\* C18: restore(path) fails when no backup is at path or when the backup is not valid JSON,
\* and in both cases the config file is left as it was before the call.
C18_RestoreFailsUntouched ==
    (hist.op = "restore"
        /\ (hist.arg \notin DOMAIN backups \/ backups[hist.arg].tag = "corrupt")) =>
        /\ hist.ret.err # "none"
        /\ File = hist.pre

C18_Witness ==
    /\ hist.op = "restore"
    /\ hist.arg \in DOMAIN backups
    /\ backups[hist.arg].tag = "corrupt"
    /\ hist.ret.err # "none"
    /\ File = hist.pre
    /\ File.tag = "obj"

\* C19 (as claimed): with the config file in place, backup() succeeds for the default path
\* and for an explicit path, also one whose directory does not exist yet; the backup holds
\* the config file's content, its path is returned, and the config file is unchanged.
C19_BackupSucceeds ==
    (hist.op = "backup" /\ config_exists(hist.pre)) =>
        /\ hist.ret.err = "none"
        /\ hist.arg # NoPath => hist.ret.v = hist.arg
        /\ hist.ret.v \in DOMAIN backups
        /\ backups[hist.ret.v] = hist.pre
        /\ File = hist.pre

-----------------------------------------------------------------------------
(* core/registry.py: discovery, refresh, custom registration and lookup *)

\* platform.system().lower(); in these runs the variable kind holds it
Systems == {"darwin", "windows", "linux"}

\* In these runs files[ct] stands for what the probes of client ct can find on the host:
\* the configuration file f, app (an installed-application marker: the application at a
\* platform install path or its executable on the search path), dir (the directory of the
\* configuration file exists) and alt (for claude-code: ~/.claude or ~/.claude/settings.json
\* exists)
Host(f, app, dir, alt) == [tag |-> f.tag, top |-> f.top, app |-> app, dir |-> dir, alt |-> alt]

\* an Optional[ClientConfig], here a sequence of at most one element
Optional(is_available, client_type) ==
    IF is_available THEN <<ClientConfig(client_type)>> ELSE <<>>

_discover_claude_code(h) == Optional(config_exists(h) \/ h.alt, CLAUDE_CODE)

\* on Linux no application path is probed
_discover_claude_desktop(system, h) ==
    Optional(IF system \in {"darwin", "windows"}
             THEN h.app \/ config_exists(h) \/ h.dir
             ELSE config_exists(h) \/ h.dir,
             CLAUDE_DESKTOP)

_discover_cursor(system, h) == Optional(h.app \/ config_exists(h) \/ h.dir, CURSOR)

_discover_vscode(h) == Optional(h.app \/ config_exists(h), VSCODE)

_discover_client(system, fs, client_type) ==
    CASE client_type = CLAUDE_CODE -> _discover_claude_code(fs[client_type])
      [] client_type = CLAUDE_DESKTOP -> _discover_claude_desktop(system, fs[client_type])
      [] client_type = CURSOR -> _discover_cursor(system, fs[client_type])
      [] client_type = VSCODE -> _discover_vscode(fs[client_type])

Installed(system, fs, ct) == Len(_discover_client(system, fs, ct)) > 0

\* self._clients[config.client_type] = config: replaces the entry of that key in place,
\* or appends a new one
SetClient(reg, config) ==
    IF \E i \in 1..Len(reg) : reg[i].client_type = config.client_type
    THEN [i \in 1..Len(reg) |-> IF reg[i].client_type = config.client_type THEN config ELSE reg[i]]
    ELSE Append(reg, config)

RECURSIVE DiscoverFrom(_, _, _, _)
\* the loop "for client_type in ClientType" from position i on
DiscoverFrom(reg, system, fs, i) ==
    IF i > Len(ClientType) THEN reg
    ELSE LET config == _discover_client(system, fs, ClientType[i]) IN
         DiscoverFrom(IF Len(config) > 0 THEN SetClient(reg, config[1]) ELSE reg,
                      system, fs, i + 1)

\* variant: the registry is not cleared before the probes
_discover_clients_keep(reg, system, fs) == DiscoverFrom(reg, system, fs, 1)
_discover_clients(reg, system, fs) == DiscoverFrom(<<>>, system, fs, 1)

add_custom_client(reg, config) == SetClient(reg, config)

\* the configurations handed to add_custom_client
CustomConfigs ==
    {[client_type |-> ct, config_path |-> "custom", is_available |-> FALSE] :
        ct \in {CLAUDE_DESKTOP, CURSOR}}

\* the registry call just made; found is the set of kinds the latest discovery found,
\* custom the kinds registered with add_custom_client since that discovery
RegCall(op, arg, ret, found, custom) ==
    [op |-> op, arg |-> arg, ret |-> ret, found |-> found, custom |-> custom]

KindsOf(reg) == {reg[i].client_type : i \in 1..Len(reg)}

\* the kinds whose probe returns a configuration
Found(system, fs) == {ct \in ClientTypes : Installed(system, fs, ct)}

\* a host without client ct, and a host where only ct's configuration file tells of it
\* (the directory of claude-code's ~/.claude.json is the home directory)
Without(ct) == Host(Missing, FALSE, ct = CLAUDE_CODE, FALSE)
WithFile(ct) == Host(Obj(Theme), FALSE, TRUE, FALSE)

\* ClientRegistry(): the constructor runs the discovery
InitRegistry ==
    /\ kind = "linux"
    /\ files \in {fs \in [ClientTypes -> {Without(ct) : ct \in ClientTypes} \cup
                                            {WithFile(ct) : ct \in ClientTypes}] :
                    \A ct \in ClientTypes : fs[ct] \in {Without(ct), WithFile(ct)}}
    /\ backups = NoBackups
    /\ clock = 0
    /\ sync = SyncOff
    /\ registry = _discover_clients(<<>>, kind, files)
    /\ hist = RegCall("init", None, Ok(None), Found(kind, files), {})

\* a client is installed or uninstalled behind the registry's back
Reinstall ==
    \E ct \in ClientTypes :
        /\ files' = [files EXCEPT ![ct] = IF Installed(kind, files, ct) THEN Without(ct)
                                           ELSE WithFile(ct)]
        /\ UNCHANGED <<kind, backups, clock, hist, registry, sync>>

Refresh ==
    /\ registry' = _discover_clients(registry, kind, files)
    /\ hist' = RegCall("refresh", None, Ok(None), Found(kind, files), {})
    /\ UNCHANGED <<kind, files, backups, clock, sync>>

AddCustomClient ==
    \E config \in CustomConfigs :
        /\ registry' = add_custom_client(registry, config)
        /\ hist' = RegCall("add_custom_client", config, Ok(None), hist.found,
                           hist.custom \cup {config.client_type})
        /\ UNCHANGED <<kind, files, backups, clock, sync>>

GetClient ==
    \E client_type \in ClientTypes :
        /\ hist' = RegCall("get_client", client_type, get_client(registry, client_type),
                           hist.found, hist.custom)
        /\ UNCHANGED <<kind, files, backups, clock, registry, sync>>

\* get_available_clients(): list(self._clients.values())
ListAvailable ==
    /\ hist' = RegCall("get_available_clients", None, Ok(get_available_clients(registry)),
                       hist.found, hist.custom)
    /\ UNCHANGED <<kind, files, backups, clock, registry, sync>>

NextRegistry ==
    \/ Reinstall
    \/ Refresh
    \/ AddCustomClient
    \/ GetClient
    \/ ListAvailable

SpecRegistry == InitRegistry /\ [][NextRegistry]_vars

\* C20: after any discoveries, refreshes and custom registrations, get_client(kind) returns
\* a handle of that very kind when the latest discovery found the kind or the kind was
\* custom-registered since, and fails with ClientNotFoundError otherwise.
C20_RegistryGet ==
    hist.op = "get_client" =>
        IF hist.arg \in hist.found \cup hist.custom
        THEN hist.ret.err = "none" /\ hist.ret.v.client_type = hist.arg
        ELSE hist.ret.err = "ClientNotFoundError"

C20_Witness ==
    /\ hist.op = "get_client"
    /\ hist.arg \in hist.custom \ hist.found
    /\ ~Installed(kind, files, hist.arg)
    /\ hist.ret.err = "none"
    /\ hist.ret.v.client_type = hist.arg
    /\ \E ct \in ClientTypes : Installed(kind, files, ct) /\ ct \notin KindsOf(registry)

\* position of a kind in the declaration order of ClientType
DeclIndex(ct) == CHOOSE i \in 1..Len(ClientType) : ClientType[i] = ct

\* C21 (as claimed): get_available_clients() returns at most one handle per kind, ordered
\* by the declaration order of the kinds, custom-registered handles included.
C21_ListOrdered ==
    hist.op = "get_available_clients" =>
        LET l == hist.ret.v IN
        \A i, j \in 1..Len(l) :
            i < j => DeclIndex(l[i].client_type) < DeclIndex(l[j].client_type)

-----------------------------------------------------------------------------
(* Discovery on every host, and the kind-to-handler lookup of clients/__init__.py *)

\* what a host can hold for client ct: an existing file lies in an existing directory;
\* claude-code's file lies in the home directory, which exists; alt is claude-code's alone
HostsOf(ct) ==
    {h \in {Host(f, app, dir, alt) :
                f \in {Missing, Obj(Theme)}, app \in BOOLEAN, dir \in BOOLEAN, alt \in BOOLEAN} :
        /\ (config_exists(h) \/ ct = CLAUDE_CODE) => h.dir
        /\ h.alt => ct = CLAUDE_CODE}

\* clients/__init__.py CLIENT_HANDLERS
CLIENT_HANDLERS ==
    [ct \in {CLAUDE_CODE, CLAUDE_DESKTOP, CURSOR, VSCODE} |->
        CASE ct = CLAUDE_CODE -> "ClaudeCodeHandler"
          [] ct = CLAUDE_DESKTOP -> "ClaudeDesktopHandler"
          [] ct = CURSOR -> "CursorHandler"
          [] ct = VSCODE -> "VSCodeHandler"]

\* ClientType(value): the member with that value, or ValueError
ClientTypeOf(value) == IF value \in ClientTypes THEN Ok(value) ELSE Raise("ValueError")

get_client_handler(client_type) ==
    IF client_type \notin DOMAIN CLIENT_HANDLERS THEN Raise("ValueError")
    ELSE Ok(CLIENT_HANDLERS[client_type])

\* the kinds the tool is documented to support
SupportedKinds == {CLAUDE_CODE, CLAUDE_DESKTOP, CURSOR, VSCODE, GEMINI_CLI, OPENCODE}

InitDiscover ==
    /\ kind \in Systems
    /\ files \in {fs \in [ClientTypes -> UNION {HostsOf(ct) : ct \in ClientTypes}] :
                    \A ct \in ClientTypes : fs[ct] \in HostsOf(ct)}
    /\ backups = NoBackups
    /\ clock = 0
    /\ sync = SyncOff
    /\ registry = _discover_clients(<<>>, kind, files)
    /\ hist = RegCall("init", None, Ok(None), Found(kind, files), {})

\* get_client_handler(ClientType(value)) for the value of a supported kind
GetClientHandler ==
    \E value \in SupportedKinds :
        LET member == ClientTypeOf(value) IN
        /\ hist' = RegCall("get_client_handler", value,
                           IF member.err = "none" THEN get_client_handler(member.v) ELSE member,
                           hist.found, hist.custom)
        /\ UNCHANGED <<kind, files, backups, clock, registry, sync>>

NextDiscover ==
    \/ Refresh
    \/ GetClient
    \/ GetClientHandler

SpecDiscover == InitDiscover /\ [][NextDiscover]_vars

\* one of the three signs of client ct is on the host
AnySign(h) == h.app \/ config_exists(h) \/ h.dir

\* C22 (as claimed): discovery marks a kind available if and only if the host has an
\* installed-application marker, the config file, or the config file's directory; each
\* alone is enough for every kind.
C22_DiscoveryRule ==
    hist.op = "refresh" =>
        \A ct \in ClientTypes : ct \in KindsOf(registry) <=> AnySign(files[ct])

\* C23 (as claimed): the six supported kinds, and exactly these, are members of ClientType,
\* and get_client_handler never fails for a supported kind.
C23_SixKinds ==
    hist.op = "get_client_handler" =>
        /\ ClientTypes = SupportedKinds
        /\ DOMAIN CLIENT_HANDLERS = SupportedKinds
        /\ hist.arg \in ClientTypes
        /\ hist.ret.err = "none"

-----------------------------------------------------------------------------
(* core/models.py: constructing an MCPServer from keyword arguments *)

\* MCPServer(**kw): the fields left out take the defaults of their Field declarations
Construct(kw) ==
    MCPServer(kw.name, kw.command,
              Get(kw, "args", <<>>), Get(kw, "env", {}),
              Get(kw, "server_type", STDIO),
              Get(kw, "url", None), "url" \in DOMAIN kw,
              Get(kw, "enabled", TRUE), Get(kw, "description", None))

\* a value for an optional keyword, or its absence
Omitted == "<omitted>"

\* the keyword arguments with the omitted ones left out; disable passes enabled=False
Kwargs(name, server_type, url, disable) ==
    LET given == [name |-> name, command |-> <<>>, server_type |-> server_type, url |-> url,
                  enabled |-> FALSE]
        key(x) == CASE x = "enabled" -> disable
                    [] x = "server_type" -> server_type # Omitted
                    [] x = "url" -> url # Omitted
                    [] OTHER -> TRUE
    IN  [x \in {y \in DOMAIN given : key(y)} |-> given[x]]

ConstructInputs ==
    {Kwargs(n, t, u, e) :
        n \in {"a", "b", "c", "a b", "a/b", "a@b", "", " "},
        t \in {Omitted, STDIO, SSE, HTTP},
        u \in {Omitted, None, "", "http://h/sse"},
        e \in BOOLEAN}

NoFiles == [k \in {} |-> Missing]

InitConstruct ==
    /\ kind = None
    /\ files = NoFiles
    /\ backups = NoBackups
    /\ clock = 0
    /\ sync = SyncOff
    /\ registry = <<>>
    /\ hist \in {[op |-> "init", arg |-> kw, ret |-> None] : kw \in ConstructInputs}

ConstructOp ==
    /\ hist.op = "init"
    /\ hist' = [op |-> "construct", arg |-> hist.arg, ret |-> Construct(hist.arg)]
    /\ UNCHANGED <<kind, files, backups, clock, registry, sync>>

SpecConstruct == InitConstruct /\ [][ConstructOp]_vars

\* the name is empty, blank, or has a character that is no letter, digit, hyphen or underscore
BadName(n) == n \in {"", " ", "a b", "a/b", "a@b"}

\* the transport is sse or http and no url is given: omitted, null or empty
NoUrlForRemote(kw) ==
    /\ Get(kw, "server_type", STDIO) \in {SSE, HTTP}
    /\ Get(kw, "url", None) \in {None, ""}

\* C24 (as claimed): constructing a record fails when the name is empty, blank or has a
\* character outside letters, digits, hyphen and underscore, or when the transport is sse
\* or http and no url is given (omitted, null or empty); every other input succeeds, the
\* transport defaulting to stdio and enabled to true.
C24_RecordValidation ==
    hist.op = "construct" =>
        LET kw == hist.arg IN
        IF BadName(kw.name) \/ NoUrlForRemote(kw)
        THEN ~hist.ret.ok
        ELSE /\ hist.ret.ok
             /\ "server_type" \notin DOMAIN kw => hist.ret.v.server_type = STDIO
             /\ "enabled" \notin DOMAIN kw => hist.ret.v.enabled = TRUE

-----------------------------------------------------------------------------
(* Properties of the stored entries *)

\* the servers mapping of a vscode file: under "mcp" in settings.json, at the top level
\* next to "inputs" in a workspace-style file
VSCodeServersOf(f) ==
    IF "mcp" \in DOMAIN f.top THEN Get(f.top["mcp"], "servers", <<>>)
    ELSE Get(f.top, "servers", <<>>)

\* C25 (as claimed): loading a vscode config returns one record per entry of the config's
\* servers mapping, with that entry's command, args and env, also for the workspace-style
\* file whose servers mapping sits at the top level next to inputs.
C25_VSCodeLoad ==
    (kind = VSCODE /\ hist.op = "load" /\ hist.pre.tag = "obj") =>
        LET entries == VSCodeServersOf(hist.pre) IN
        /\ hist.ret.err = "none"
        /\ Len(hist.ret.v) = Len(entries)
        /\ \A i \in 1..Len(entries) :
            /\ hist.ret.v[i].name = entries[i].k
            /\ hist.ret.v[i].command = Get(entries[i].v, "command", <<>>)
            /\ hist.ret.v[i].args = Get(entries[i].v, "args", <<>>)
            /\ hist.ret.v[i].env = Get(entries[i].v, "env", {})

\* C26 (as claimed): from any parseable config file and after any add, remove and save
\* calls, load() never returns two records with the same name.
C26_UniqueNames ==
    (hist.op = "load" /\ hist.ret.err = "none") => DistinctNames(hist.ret.v)

-----------------------------------------------------------------------------
(* The cursor handler on a file that starts in the mcpServers format *)

\* cursor files with a non-empty mcpServers mapping and no servers list
AlphaFiles ==
    {Obj(Put(CursorFresh, "mcpServers", <<Pair("a", EntryNpx)>>)),
     Obj(Put(Theme, "mcpServers", <<Pair("a", EntryNode), Pair("b", EntrySse)>>))}

InitAlpha == InitOn([k \in HandlerKinds |-> IF k = CURSOR THEN AlphaFiles ELSE {}])

NextAlpha ==
    \/ AddOp(Records)
    \/ RemoveOp(Names)

SpecAlpha == InitAlpha /\ [][NextAlpha]_vars

\* C27 (as claimed): from a cursor file in the mcpServers format, after any add and remove
\* calls (removing the last server and adding one included), the file has no servers list:
\* every stored server is under mcpServers.
C27_StaysAlpha ==
    hist.op \in {"add", "remove"} =>
        /\ File.tag = "obj"
        /\ "servers" \notin DOMAIN File.top
        /\ "mcpServers" \in DOMAIN File.top

-----------------------------------------------------------------------------
(* Frame of add_server and remove_server *)

\* the entries stored under name n in file f of handler k, as they are on disk
StoredOf(k, f, n) ==
    LET dict(d) == {d[i].v : i \in {j \in 1..Len(d) : d[j].k = n}}
        list(l) == {l[i] : i \in {j \in 1..Len(l) : l[j].name = n}}
    IN  IF f.tag # "obj" THEN {}
        ELSE CASE k \in {CLAUDE_CODE, GEMINI_CLI} -> dict(Get(f.top, "mcpServers", <<>>))
               [] k = CURSOR -> dict(Get(f.top, "mcpServers", <<>>))
                                   \cup list(Get(f.top, "servers", <<>>))
               [] k = VSCODE -> dict(Get(Get(f.top, "mcp", EmptyObj), "servers", <<>>))
               [] k = OPENCODE -> dict(Get(f.top, "mcp", <<>>))

\* the name an add or remove call is about
NamedBy(h) == IF h.op = "add" THEN h.arg.name ELSE h.arg

\* C28 (as claimed): add(r) and remove(n) change only the stored entry of the named server;
\* the stored entry of every other server is the same after the call as before, with the
\* keys the handler does not model and the entries load() skips.
C28_OtherEntriesKept ==
    (hist.op \in {"add", "remove"} /\ hist.ret.err = "none" /\ hist.pre.tag = "obj") =>
        \A n \in {"a", "b", "c"} \ {NamedBy(hist)} :
            StoredOf(kind, File, n) = StoredOf(kind, hist.pre, n)

-----------------------------------------------------------------------------
(* The sync command's summary and its backups *)

SaidAllSuccessful ==
    [msg |-> "Sync Complete", line |-> "All operations successful!"] \in sync.out

\* C29 (as claimed): sync reports "All operations successful!" only if every selected
\* source record was added to every resolved target: not when a target was unavailable or
\* failed before its records were attempted, when an add failed or was declined, or when
\* nothing was attempted.
C29_SuccessMeansAll ==
    SaidAllSuccessful =>
        /\ sync.total_operations > 0
        /\ \A i \in 1..Len(sync.target_client_types) :
              sync.synced[sync.target_client_types[i]] = Len(sync.source_servers)

\* the backups taken of target t
BackupsOf(t) == {p \in DOMAIN backups : p.k = t}

\* a step that writes a backup: it is the first one of the target being processed, no add
\* to that target came before it, and it holds the file the target had when the sync began
BackupFirst ==
    backups' # backups =>
        /\ sync.pc = "target" /\ sync.backup
        /\ LET t == sync.target_client_types[sync.ti] IN
           /\ BackupsOf(t) = {}
           /\ \A o \in sync.ops : o.client # t
           /\ DOMAIN backups' = DOMAIN backups \cup {DefaultBackupPath(t, clock)}
           /\ backups'[DefaultBackupPath(t, clock)] = sync.before[t]
           /\ \A p \in DOMAIN backups : backups'[p] = backups[p]

\* the targets are taken one after another: a step works on the current target only,
\* and the position in the target list never goes back
OneTargetAtATime ==
    /\ sync'.pc # "off" /\ sync.pc \in {"target", "server"} => sync'.ti >= sync.ti
    /\ \A t \in DOMAIN files :
          files'[t] # files[t] => t = sync.target_client_types[sync.ti]

====
